---- MODULE Spec2Model ----
(***************************************************************************)
(* The context-currency core of src/src/context.cpp: MonoContext_impl      *)
(* (one process-wide current_context pointer, no locking) and              *)
(* MultiContext_impl (a map thread-id -> instance guarded by one           *)
(* recursive mutex), the Context facade's GPU calls, and the typed         *)
(* parameter reader get<T>.                                                *)
(*                                                                         *)
(* Threads are OS threads; every thread runs one call at a time.  A call   *)
(* is a frame (frame[t]) and a position in the code (pc[t]); the call's    *)
(* outcome stays in the frame at pc = "done" until the thread returns.     *)
(* A step of a thread is one statement of the source; the statements that  *)
(* only read the calling thread's identity and the instance's immutable    *)
(* _thread_id are part of the step that enters the function.               *)
(*                                                                         *)
(* GL_CALL, the error-checking wrapper around every driver call, is a      *)
(* macro of a header outside these sources: GL_CALL(f(x)) stands for the   *)
(* call f(x).                                                              *)
(***************************************************************************)
EXTENDS Integers, Sequences, FiniteSets, TLC

\* ------------------------------------------------------------------ bounds
NThreads == 2
NInst == 2
MaxDriverCalls == 3     \* the calls the mocked driver records

Threads == 1..NThreads
Inst == 1..NInst

NULL == 0        \* nullptr, context.cpp:101
NoThread == 0    \* a value no std::thread::id of a running thread takes

\* ------------------------------------------------------------- GL constants
GL_COLOR_BUFFER_BIT == 16384      \* 0x00004000, the default of _clear_mask
GL_DEPTH_BUFFER_BIT == 256        \* 0x00000100
GL_MAJOR_VERSION == 33307         \* 0x821B
GL_MINOR_VERSION == 33308         \* 0x821C
GL_BLEND == 3042                  \* 0x0BE2, one of the instantiated capabilities

VARIABLES
  alive,            \* alive[i]: instance i is constructed and not destroyed
  kind,             \* kind[i]: "mono" | "multi" | "none": the dynamic type of i
  thread_id,        \* MultiContext_impl::_thread_id
  clear_mask,       \* Context_impl::_clear_mask
  mono_current,     \* MonoContext_impl::current_context
  multi_current,    \* MultiContext_impl::current_context (the std::map)
  lock,             \* MultiContext_impl::current_context_lock
  pc,               \* pc[t]: where thread t stands
  frame,            \* frame[t]: the call thread t is running
  driver            \* the calls a mocked driver has received, in order

vars == <<alive, kind, thread_id, clear_mask, mono_current, multi_current, lock, pc, frame, driver>>

\* ------------------------------------------------------------------ frames
NoFrame ==
  [op |-> "none", tmpl |-> "none", self |-> NULL, arg |-> <<>>, seen |-> NULL,
   hooks |-> <<>>, calls |-> <<>>, out |-> <<>>, val |-> <<>>, ret |-> FALSE,
   err |-> "none"]

\* The slot of thread t in the map, NULL when the map holds no entry for t.
SlotOf(t) == IF t \in DOMAIN multi_current THEN multi_current[t] ELSE NULL

\* The value of the slot instance i competes for: the process-wide pointer of a
\* MonoContext_impl, the entry of its creating thread of a MultiContext_impl.
ScopeSlot(i) == IF kind[i] = "mono" THEN mono_current ELSE SlotOf(thread_id[i])

NewFrame(o, i, a) == [NoFrame EXCEPT !.op = o, !.self = i, !.arg = a]

\* --------------------------------------------------------- recursive mutex
FreeLock == [owner |-> NoThread, count |-> 0]

\* A mutex that excludes nobody.
CanLockAlways(t) == TRUE

\* std::recursive_mutex::lock returns when no other thread owns the mutex.
CanLock(t) == lock.owner \in {NoThread, t}

Locked(t) == [owner |-> t, count |-> lock.count + 1]

\* std::lock_guard's destructor: one level of ownership is given up.
Unlocked == IF lock.count > 1 THEN [lock EXCEPT !.count = @ - 1] ELSE FreeLock

\* -------------------------------------------------------------------- Init
Init ==
  /\ alive = [i \in Inst |-> FALSE]
  /\ kind = [i \in Inst |-> "none"]
  /\ thread_id = [i \in Inst |-> NoThread]
  /\ clear_mask = [i \in Inst |-> GL_COLOR_BUFFER_BIT]
  /\ mono_current = NULL
  /\ multi_current = <<>>
  /\ lock = FreeLock
  /\ pc = [t \in Threads |-> "idle"]
  /\ frame = [t \in Threads |-> NoFrame]
  /\ driver = <<>>

\* ------------------------------------------------------------ the callers
\* MonoContext_impl takes no lock (context.cpp:206-222) and keeps no thread
\* identity: all calls on single-owner instances come from the first thread.
MayCall(t, i) == kind[i] = "multi" \/ (kind[i] = "mono" /\ t = 1)

\* No other thread is inside a call on instance i: the condition under which
\* the owner of the Context may destroy it.
Quiescent(t, i) == \A u \in Threads \ {t} : frame[u].self # i

\* No other thread is constructing or destroying instance i: an object is used
\* only within its lifetime.
InLifetime(t, i) ==
  \A u \in Threads \ {t} : frame[u].self = i => frame[u].op \notin {"construct", "destroy"}

\* operator new hands out a free address; which one makes no difference, the
\* lowest free one is taken.
Fresh(i) == ~alive[i] /\ \A j \in Inst : j < i => alive[j]

\* A frame at "done" is the outcome being handed to the caller: that takes no
\* time, so no thread moves while one stands there.
Running == \A u \in Threads : pc[u] # "done"

\* --------------------------------------------------------------- helpers
\* std::map::operator[]: the mapped value, value-initialised when absent.
MapIndex(m, k) == IF k \in DOMAIN m THEN m ELSE [u \in DOMAIN m \cup {k} |-> IF u = k THEN NULL ELSE m[u]]

MapStore(m, k, v) == [u \in DOMAIN m \cup {k} |-> IF u = k THEN v ELSE m[u]]

\* A lookup that creates the entry it does not find, as operator[] does.
MapFindInserts(m, k) == IF k \in DOMAIN m THEN m ELSE [u \in DOMAIN m \cup {k} |-> IF u = k THEN NULL ELSE m[u]]

\* std::map::find: the map after the lookup, which inserts nothing.
MapFind(m, k) == m

\* An erase that removes nothing.
MapEraseNothing(m, k) == m

\* std::map::erase(it)
MapErase(m, k) == [u \in DOMAIN m \ {k} |-> m[u]]

\* make_current with its thread test turned round.
McWrongThreadInverted(t, i) == t = thread_id[i]

\* make_current without its thread test.
McNeverWrongThread(t, i) == FALSE

\* context.cpp:233, std::this_thread::get_id() != _thread_id in make_current
McWrongThread(t, i) == t # thread_id[i]

\* current without its thread test.
CurNeverWrongThread(t, i) == FALSE

\* current with its thread test turned round.
CurWrongThreadInverted(t, i) == t = thread_id[i]

\* context.cpp:250, std::this_thread::get_id() != _thread_id in current
CurWrongThread(t, i) == t # thread_id[i]

\* make_current that never notifies.
MonoSupersedesNever(i) == FALSE

\* make_current that notifies whatever instance the pointer names.
MonoSupersedesAny(i) == mono_current # NULL

\* context.cpp:207, current_context && current_context != this
MonoSupersedes(i) == mono_current # NULL /\ mono_current # i

\* current that tests the pointer for null only.
MonoIsCurrentAny(i) == mono_current # NULL

\* context.cpp:214, current_context == this
MonoIsCurrent(i) == mono_current = i

\* A map in which every instance uses the first thread's entry.
MapKeyShared(i) == 1

\* The key of the map an instance reads and writes: _thread_id (238, 254, 260).
MapKey(i) == thread_id[i]

\* context.cpp:254-255, the find on _thread_id and the comparison with this
MultiFindIsThis(i) ==
  MapKey(i) \in DOMAIN multi_current /\ multi_current[MapKey(i)] = i

\* What current() returns for instance i when thread t calls it between
\* operations: Context::current (267-269) dispatching on the dynamic type.
IsCurrent(t, i) ==
  CASE kind[i] = "mono" -> MonoIsCurrent(i)
    [] kind[i] = "multi" -> ~CurWrongThread(t, i) /\ MultiFindIsThis(i)
    [] OTHER -> FALSE

\* The record of one invocation of on_made_not_current (172-173, an empty
\* body): the instance it is invoked on, and the slot's value and the mutex's
\* owner at that moment.
HookCall(on, slot, owner) == [on |-> on, slot |-> slot, owner |-> owner]

SetPc(t, p) == pc' = [pc EXCEPT ![t] = p]
SetFrame(t, f) == frame' = [frame EXCEPT ![t] = f]

\* ------------------------------------------------- the typed reader, get<T>
GetOps ==
  {"get_int", "get_int64", "get_bool", "get_double", "get_float", "get_color",
   "major_version", "minor_version"}

\* The native query each instantiation names (context.cpp:127-157).
GetFn(op) ==
  CASE op \in {"get_int", "major_version", "minor_version"} -> "glGetIntegerv"
    [] op = "get_int64" -> "glGetInteger64v"
    [] op = "get_bool" -> "glGetBooleanv"
    [] op = "get_double" -> "glGetDoublev"
    [] op \in {"get_float", "get_color"} -> "glGetFloatv"

\* What the driver may write through the out pointer: one value, four for the
\* colour read at :155.  Versions are non-negative.
DriverAnswers(op) ==
  CASE op = "get_color" -> {<<0, 0, 0, 1>>, <<1, 0, 1, 0>>}
    [] op = "get_bool" -> {<<0>>, <<1>>}
    [] OTHER -> {<<3>>, <<4>>}

\* The conversion of the value read to the returned type: GLboolean to bool
\* (:138-140); int to unsigned (:161, :165), which keeps a non-negative int
\* (every version the driver answers); the others unchanged.
Returned(op, out) ==
  CASE op = "get_bool" -> <<IF out[1] # 0 THEN 1 ELSE 0>>
    [] OTHER -> out

\* The parameter a read names: any GLenum for get<T> (296-299), the version
\* parameters for major_version and minor_version (160-166).
GetParams(op) ==
  CASE op = "major_version" -> {GL_MAJOR_VERSION}
    [] op = "minor_version" -> {GL_MINOR_VERSION}
    [] OTHER -> {GL_MAJOR_VERSION, GL_MINOR_VERSION}

\* A reader without the test.
GetNeverRefuses(r) == FALSE

\* context.cpp:111, if (!context.current()) throw
GetRefuses(r) == ~r

\* context.cpp:112, the throw.  Which instantiation the caller named and with
\* which parameter is first read at 114: a frame of get takes them (tmpl, arg)
\* at the query.
GetThrows(t, f) ==
  /\ SetFrame(t, [f EXCEPT !.err = "InactiveContextError"])
  /\ SetPc(t, "done")

\* The return of current() to its caller: is_current() hands the value on,
\* get (109-115) throws or goes on to the query.
CurrentReturns(t, f0, r) ==
  LET f == [f0 EXCEPT !.ret = r] IN
  IF f.op = "is_current"
    THEN SetFrame(t, f) /\ SetPc(t, "done")
    ELSE IF GetRefuses(r)
      THEN GetThrows(t, f)
      ELSE SetFrame(t, f) /\ SetPc(t, "get_query")

\* context.cpp:114, GL_CALL(GET(param, out)), and the return of the value
\* (118-122, 127-166).
GetQuery(t) ==
  /\ pc[t] = "get_query"
  /\ Running
  /\ \E op \in GetOps : \E p \in GetParams(op), v \in DriverAnswers(op) :
       SetFrame(t, [frame[t] EXCEPT
         !.tmpl = op,
         !.arg = <<p>>,
         !.calls = Append(@, [fn |-> GetFn(op), args |-> <<p>>]),
         !.out = v,
         !.val = Returned(op, v)])
  /\ SetPc(t, "done")
  /\ UNCHANGED <<alive, kind, thread_id, clear_mask, mono_current, multi_current, lock>>
  /\ UNCHANGED driver

\* ------------------------------------------------------- MonoContext_impl
\* The class takes no lock and all of its callers are one thread, so no other
\* thread sees a call half done: each call is one step.

\* context.cpp:206-211, MonoContext_impl::make_current run in frame f: the test,
\* the hook on the instance the pointer names, then the store.
MonoMakeCurrentBody(t, f) ==
  /\ SetFrame(t, [f EXCEPT
       !.seen = mono_current,
       !.hooks = IF MonoSupersedes(f.self)
                   THEN Append(@, HookCall(mono_current, mono_current, NoThread))
                   ELSE @])
  /\ mono_current' = f.self
  /\ SetPc(t, "done")

\* A destructor that leaves the pointer alone.
MonoDtorKeeps(i) == FALSE

\* context.cpp:219, current_context == this in the destructor
MonoDtorClears(i) == mono_current = i

\* The end of an instance's lifetime (delete _impl, context.cpp:168-170).
Dead(i) ==
  /\ alive' = [alive EXCEPT ![i] = FALSE]
  /\ kind' = [kind EXCEPT ![i] = "none"]
  /\ thread_id' = [thread_id EXCEPT ![i] = NoThread]
  /\ clear_mask' = [clear_mask EXCEPT ![i] = GL_COLOR_BUFFER_BIT]

\* ------------------------------------------------------ MultiContext_impl
\* context.cpp:237, :253, :259, std::lock_guard's constructor
TakeLock(t, from, to) ==
  /\ pc[t] = from
  /\ Running
  /\ CanLock(t)
  /\ lock' = Locked(t)
  /\ SetPc(t, to)
  /\ UNCHANGED <<alive, kind, thread_id, clear_mask, mono_current, multi_current, frame>>
  /\ UNCHANGED driver

McLock(t) == TakeLock(t, "mc_lock", "mc_slot")

\* context.cpp:238, auto& i = current_context[_thread_id]
McSlot(t) ==
  /\ pc[t] = "mc_slot"
  /\ Running
  /\ multi_current' = MapIndex(multi_current, MapKey(frame[t].self))
  /\ SetPc(t, "mc_test")
  /\ UNCHANGED <<alive, kind, thread_id, clear_mask, mono_current, lock, frame>>
  /\ UNCHANGED driver

\* context.cpp:239-240, if (i != this) { if (i)
McTest(t) ==
  LET i == multi_current[MapKey(frame[t].self)] IN
  /\ pc[t] = "mc_test"
  /\ Running
  /\ SetFrame(t, [frame[t] EXCEPT !.seen = i])
  /\ SetPc(t, IF i # frame[t].self
                THEN IF i # NULL THEN "mc_hook" ELSE "mc_store"
                ELSE "mc_unlock")
  /\ UNCHANGED <<alive, kind, thread_id, clear_mask, mono_current, multi_current, lock>>
  /\ UNCHANGED driver

\* make_current that goes on to the store without the notification.
McHookSkips(t) ==
  /\ pc[t] = "mc_hook"
  /\ Running
  /\ SetPc(t, "mc_store")
  /\ UNCHANGED <<alive, kind, thread_id, clear_mask, mono_current, multi_current, lock, frame, driver>>

\* context.cpp:241, i->on_made_not_current()
McHook(t) ==
  LET i == multi_current[MapKey(frame[t].self)] IN
  /\ pc[t] = "mc_hook"
  /\ Running
  /\ SetFrame(t, [frame[t] EXCEPT !.hooks = Append(@, HookCall(i, i, lock.owner))])
  /\ SetPc(t, "mc_store")
  /\ UNCHANGED <<alive, kind, thread_id, clear_mask, mono_current, multi_current, lock>>
  /\ UNCHANGED driver

\* context.cpp:243, i = this
McStore(t) ==
  /\ pc[t] = "mc_store"
  /\ Running
  /\ multi_current' = MapStore(multi_current, MapKey(frame[t].self), frame[t].self)
  /\ SetPc(t, "mc_unlock")
  /\ UNCHANGED <<alive, kind, thread_id, clear_mask, mono_current, lock, frame>>
  /\ UNCHANGED driver

\* make_current that leaves its block without giving the mutex up.
McUnlockKeeps(t) ==
  /\ pc[t] = "mc_unlock"
  /\ Running
  /\ SetPc(t, "done")
  /\ UNCHANGED <<alive, kind, thread_id, clear_mask, mono_current, multi_current, lock, frame>>
  /\ UNCHANGED driver

\* context.cpp:245-247, the end of the guarded block, then
\* Context_impl::make_current (53, an empty body)
McUnlock(t) ==
  /\ pc[t] = "mc_unlock"
  /\ Running
  /\ lock' = Unlocked
  /\ SetPc(t, "done")
  /\ UNCHANGED <<alive, kind, thread_id, clear_mask, mono_current, multi_current, frame>>
  /\ UNCHANGED driver

CurLock(t) == TakeLock(t, "cur_lock", "cur_find")

\* context.cpp:254-255, the find and the value of the return expression
CurFind(t) ==
  /\ pc[t] = "cur_find"
  /\ Running
  /\ SetFrame(t, [frame[t] EXCEPT !.ret = MultiFindIsThis(frame[t].self)])
  /\ multi_current' = MapFind(multi_current, MapKey(frame[t].self))
  /\ SetPc(t, "cur_unlock")
  /\ UNCHANGED <<alive, kind, thread_id, clear_mask, mono_current, lock>>
  /\ UNCHANGED driver

\* context.cpp:256, the guard's destructor and the return
CurUnlock(t) ==
  /\ pc[t] = "cur_unlock"
  /\ Running
  /\ lock' = Unlocked
  /\ CurrentReturns(t, frame[t], frame[t].ret)
  /\ UNCHANGED <<alive, kind, thread_id, clear_mask, mono_current, multi_current>>
  /\ UNCHANGED driver

DtLock(t) == TakeLock(t, "dt_lock", "dt_find")

\* A destructor that leaves the map alone.
MultiDtorKeeps(i) == FALSE

\* A destructor that erases its thread's entry whatever it holds.
MultiDtorErasesAny(i) == MapKey(i) \in DOMAIN multi_current

\* context.cpp:261, it != current_context.end() && it->second == this
MultiDtorErases(i) == MultiFindIsThis(i)

\* context.cpp:260-263, the find and the erase
DtFind(t) ==
  /\ pc[t] = "dt_find"
  /\ Running
  /\ multi_current' =
       IF MultiDtorErases(frame[t].self)
         THEN MapErase(multi_current, MapKey(frame[t].self))
         ELSE multi_current
  /\ SetFrame(t, [frame[t] EXCEPT !.seen = SlotOf(MapKey(frame[t].self))])
  /\ SetPc(t, "dt_unlock")
  /\ UNCHANGED <<alive, kind, thread_id, clear_mask, mono_current, lock>>
  /\ UNCHANGED driver

\* context.cpp:264, the guard's destructor; the object is gone
DtUnlock(t) ==
  /\ pc[t] = "dt_unlock"
  /\ Running
  /\ lock' = Unlocked
  /\ Dead(frame[t].self)
  /\ SetPc(t, "done")
  /\ UNCHANGED <<mono_current, multi_current, frame>>
  /\ UNCHANGED driver

\* ---------------------------------------------------------------- the calls
CanCall(t, i) == pc[t] = "idle" /\ Running /\ alive[i] /\ MayCall(t, i) /\ InLifetime(t, i)

\* The birth of instance i of dynamic type k on thread t: Context_impl's
\* constructor (191) and the member initialisers (58, 227).
Born(t, i, k) ==
  /\ alive' = [alive EXCEPT ![i] = TRUE]
  /\ kind' = [kind EXCEPT ![i] = k]
  /\ thread_id' = [thread_id EXCEPT ![i] = IF k = "multi" THEN t ELSE NoThread]
  /\ clear_mask' = [clear_mask EXCEPT ![i] = GL_COLOR_BUFFER_BIT]

\* A constructor whose body is empty.
MonoCtorSkips(t, f) == SetFrame(t, f) /\ SetPc(t, "done") /\ UNCHANGED mono_current

\* context.cpp:197, the body of MonoContext_impl's constructor: make_current()
MonoCtorBody(t, f) == MonoMakeCurrentBody(t, f)

\* MonoContext::MonoContext (201-203) and MonoContext_impl's constructor (196-198)
MonoConstruct(t, i) ==
  /\ pc[t] = "idle"
  /\ Running
  /\ t = 1
  /\ Fresh(i)
  /\ Born(t, i, "mono")
  /\ MonoCtorBody(t, NewFrame("construct", i, <<>>))
  /\ UNCHANGED <<multi_current, lock>>
  /\ UNCHANGED driver

\* Context::make_current (271-273) into MonoContext_impl::make_current (206-211)
MonoMakeCurrent(t, i) ==
  /\ CanCall(t, i)
  /\ kind[i] = "mono"
  /\ MonoMakeCurrentBody(t, NewFrame("make_current", i, <<>>))
  /\ UNCHANGED <<alive, kind, thread_id, clear_mask, multi_current, lock>>
  /\ UNCHANGED driver

\* Context::~Context (168-170) into ~MonoContext_impl (218-222)
MonoDestroy(t, i) ==
  /\ CanCall(t, i)
  /\ kind[i] = "mono"
  /\ mono_current' = IF MonoDtorClears(i) THEN NULL ELSE mono_current
  /\ Dead(i)
  /\ SetFrame(t, [NewFrame("destroy", i, <<>>) EXCEPT !.seen = mono_current])
  /\ SetPc(t, "done")
  /\ UNCHANGED <<multi_current, lock>>
  /\ UNCHANGED driver

\* context.cpp:229, the body of MultiContext_impl's constructor: make_current(),
\* whose test at 233 compares the calling thread with the _thread_id captured
\* at 227, the same thread.
MultiCtorBody(t, f) == SetFrame(t, f) /\ SetPc(t, "mc_lock")

\* MultiContext_impl's constructor (225-230)
MultiConstruct(t, i) ==
  /\ pc[t] = "idle"
  /\ Running
  /\ Fresh(i)
  /\ Born(t, i, "multi")
  /\ MultiCtorBody(t, NewFrame("construct", i, <<>>))
  /\ UNCHANGED <<mono_current, multi_current, lock>>
  /\ UNCHANGED driver

\* Context::make_current (271-273) into MultiContext_impl::make_current up to
\* its thread test (233-235)
MultiMakeCurrent(t, i) ==
  LET f == NewFrame("make_current", i, <<>>) IN
  /\ CanCall(t, i)
  /\ kind[i] = "multi"
  /\ IF McWrongThread(t, i)
       THEN SetFrame(t, [f EXCEPT !.err = "CrossThreadAccessError"]) /\ SetPc(t, "done")
       ELSE SetFrame(t, f) /\ SetPc(t, "mc_lock")
  /\ UNCHANGED <<alive, kind, thread_id, clear_mask, mono_current, multi_current, lock>>
  /\ UNCHANGED driver

\* Context::~Context (168-170) into ~MultiContext_impl (258), which tests no
\* thread identity.
MultiDestroy(t, i) ==
  /\ CanCall(t, i)
  /\ kind[i] = "multi"
  /\ Quiescent(t, i)
  /\ SetFrame(t, NewFrame("destroy", i, <<MapKey(i)>>))
  /\ SetPc(t, "dt_lock")
  /\ UNCHANGED <<alive, kind, thread_id, clear_mask, mono_current, multi_current, lock>>
  /\ UNCHANGED driver

\* Context::current (267-269) for the caller whose frame is f:
\* MonoContext_impl::current (213-215), or MultiContext_impl::current up to
\* its thread test (250-252).
EnterCurrent(t, f) ==
  IF kind[f.self] = "mono"
    THEN CurrentReturns(t, f, MonoIsCurrent(f.self))
    ELSE IF CurWrongThread(t, f.self)
      THEN CurrentReturns(t, f, FALSE)
      ELSE SetFrame(t, f) /\ SetPc(t, "cur_lock")

IsCurrentCall(t, i) ==
  /\ CanCall(t, i)
  /\ EnterCurrent(t, NewFrame("is_current", i, <<>>))
  /\ UNCHANGED <<alive, kind, thread_id, clear_mask, mono_current, multi_current, lock>>
  /\ UNCHANGED driver

\* get (109-115) up to its call of context.current() at 111, whose statements
\* are the steps of current() above.
Get(t, i) ==
  /\ CanCall(t, i)
  /\ EnterCurrent(t, NewFrame("get", i, <<>>))
  /\ UNCHANGED <<alive, kind, thread_id, clear_mask, mono_current, multi_current, lock>>
  /\ UNCHANGED driver

\* The caller takes the outcome and is free to call again.
Return(t) ==
  /\ pc[t] = "done"
  /\ SetFrame(t, NoFrame)
  /\ SetPc(t, "idle")
  /\ UNCHANGED <<alive, kind, thread_id, clear_mask, mono_current, multi_current, lock>>
  /\ UNCHANGED driver

\* ------------------------------------- MultiContext_impl, a call as one step
\* The guarded block of a call (lock, body, unlock) as one step, taken when the
\* mutex can be had.  These are the steps above run without a pause; the
\* specification of the facade uses them for the calls around a read.

\* context.cpp:236-246, the guarded block of make_current and the return
McBlock(t, f) ==
  LET key == IF f.op = "construct" THEN t ELSE MapKey(f.self)
      i == IF key \in DOMAIN multi_current THEN multi_current[key] ELSE NULL
      hooked == i # f.self /\ i # NULL
  IN
  /\ CanLock(t)
  /\ multi_current' = IF i # f.self THEN MapStore(multi_current, key, f.self)
                                     ELSE multi_current
  /\ SetFrame(t, [f EXCEPT
       !.seen = i,
       !.hooks = IF hooked THEN <<HookCall(i, i, t)>> ELSE <<>>])
  /\ SetPc(t, "done")

\* MultiContext_impl's constructor (225-230)
WholeMultiConstruct(t, i) ==
  /\ pc[t] = "idle"
  /\ Running
  /\ Fresh(i)
  /\ Born(t, i, "multi")
  /\ McBlock(t, NewFrame("construct", i, <<>>))
  /\ UNCHANGED <<mono_current, lock>>
  /\ UNCHANGED driver

\* MultiContext_impl::make_current (232-247)
WholeMultiMakeCurrent(t, i) ==
  LET f == NewFrame("make_current", i, <<>>) IN
  /\ CanCall(t, i)
  /\ kind[i] = "multi"
  /\ IF McWrongThread(t, i)
       THEN /\ SetFrame(t, [f EXCEPT !.err = "CrossThreadAccessError"])
            /\ SetPc(t, "done")
            /\ UNCHANGED multi_current
       ELSE McBlock(t, f)
  /\ UNCHANGED <<alive, kind, thread_id, clear_mask, mono_current, lock>>
  /\ UNCHANGED driver

\* ~MultiContext_impl (258-264)
WholeMultiDestroy(t, i) ==
  /\ CanCall(t, i)
  /\ kind[i] = "multi"
  /\ Quiescent(t, i)
  /\ CanLock(t)
  /\ multi_current' = IF MultiDtorErases(i) THEN MapErase(multi_current, MapKey(i))
                                             ELSE multi_current
  /\ Dead(i)
  /\ SetFrame(t, [NewFrame("destroy", i, <<MapKey(i)>>) EXCEPT !.seen = SlotOf(MapKey(i))])
  /\ SetPc(t, "done")
  /\ UNCHANGED <<mono_current, lock>>
  /\ UNCHANGED driver

\* get (109-115) up to the return of context.current() at 111, with
\* MultiContext_impl::current (249-256) as one step
WholeGet(t, i) ==
  LET f == NewFrame("get", i, <<>>) IN
  /\ CanCall(t, i)
  /\ IF kind[i] = "mono"
       THEN CurrentReturns(t, f, MonoIsCurrent(i))
       ELSE IF CurWrongThread(t, i)
         THEN CurrentReturns(t, f, FALSE)
         ELSE CanLock(t) /\ CurrentReturns(t, f, MultiFindIsThis(i))
  /\ UNCHANGED <<alive, kind, thread_id, clear_mask, mono_current, multi_current, lock>>
  /\ UNCHANGED driver

\* --------------------------------------------------- the facade's GPU calls
GpuOps == {"clear", "clear_mask", "clear_color", "enable", "disable", "is_enabled"}

\* The arguments a caller may pass: a mask, a colour (r, g, b, a), nothing; the
\* capability of enable<C>, disable<C>, is_enabled<C> is a template argument.
GpuArgs(op) ==
  CASE op = "clear_mask" -> {<<GL_COLOR_BUFFER_BIT>>, <<GL_DEPTH_BUFFER_BIT>>}
    [] op = "clear_color" -> {<<0, 0, 0, 1>>, <<1, 0, 1, 0>>}
    [] op \in {"enable", "disable", "is_enabled"} -> {<<GL_BLEND>>}
    [] OTHER -> {<<>>}

\* Forwards that hand the colour over in the opposite component order.
GpuForwardReversed(op, i, a) ==
  CASE op = "clear" -> [fn |-> "glClear", args |-> <<clear_mask[i]>>]
    [] op = "clear_mask" -> [fn |-> "glClear", args |-> a]
    [] op = "clear_color" -> [fn |-> "glClearColor", args |-> <<a[4], a[3], a[2], a[1]>>]
    [] op = "enable" -> [fn |-> "glEnable", args |-> a]
    [] op = "disable" -> [fn |-> "glDisable", args |-> a]
    [] op = "is_enabled" -> [fn |-> "glIsEnabled", args |-> a]

\* The driver call each one forwards to (176-186, 280-294).
GpuForward(op, i, a) ==
  CASE op = "clear" -> [fn |-> "glClear", args |-> <<clear_mask[i]>>]
    [] op = "clear_mask" -> [fn |-> "glClear", args |-> a]
    [] op = "clear_color" -> [fn |-> "glClearColor", args |-> <<a[1], a[2], a[3], a[4]>>]
    [] op = "enable" -> [fn |-> "glEnable", args |-> a]
    [] op = "disable" -> [fn |-> "glDisable", args |-> a]
    [] op = "is_enabled" -> [fn |-> "glIsEnabled", args |-> a]

\* Context::clear, clear(mask), clear_color (176-186), enable, disable,
\* is_enabled (280-294): GL_CALL of the native function, and for is_enabled the
\* GLboolean it answers (292-293).
Gpu(t, i, op) ==
  /\ CanCall(t, i)
  /\ \E a \in GpuArgs(op), b \in BOOLEAN :
       /\ op # "is_enabled" => ~b
       /\ SetFrame(t, [NewFrame(op, i, a) EXCEPT
            !.seen = ScopeSlot(i),
            !.calls = <<GpuForward(op, i, a)>>,
            !.ret = b])
  /\ SetPc(t, "done")
  /\ UNCHANGED <<alive, kind, thread_id, clear_mask, mono_current, multi_current, lock>>
  /\ UNCHANGED driver

\* Context::clear, clear(mask), clear_color (176-186) against a mocked driver,
\* which records the call it receives.
ClearOps == {"clear", "clear_mask", "clear_color"}

GpuMocked(t, i, op) ==
  /\ CanCall(t, i)
  /\ Len(driver) < MaxDriverCalls
  /\ \E a \in GpuArgs(op) :
       /\ SetFrame(t, [NewFrame(op, i, a) EXCEPT
            !.seen = ScopeSlot(i),
            !.calls = <<GpuForward(op, i, a)>>])
       /\ driver' = Append(driver, GpuForward(op, i, a))
  /\ SetPc(t, "done")
  /\ UNCHANGED <<alive, kind, thread_id, clear_mask, mono_current, multi_current, lock>>

\* -------------------------------------------------------------------- Next
\* The currency core: construction, make_current, is_current and teardown of
\* both variants.
Next ==
  \E t \in Threads :
    \/ \E i \in Inst : MonoConstruct(t, i)
    \/ \E i \in Inst : MonoMakeCurrent(t, i)
    \/ \E i \in Inst : MonoDestroy(t, i)
    \/ \E i \in Inst : MultiConstruct(t, i)
    \/ \E i \in Inst : MultiMakeCurrent(t, i)
    \/ \E i \in Inst : MultiDestroy(t, i)
    \/ \E i \in Inst : IsCurrentCall(t, i)
    \/ McLock(t) \/ McSlot(t) \/ McTest(t) \/ McHook(t) \/ McStore(t) \/ McUnlock(t)
    \/ CurLock(t) \/ CurFind(t) \/ CurUnlock(t)
    \/ DtLock(t) \/ DtFind(t) \/ DtUnlock(t)
    \/ Return(t)

Spec == Init /\ [][Next]_vars

\* The facade: the typed reads and the GPU calls, with construction,
\* make_current and teardown around them, each guarded block one step.
NextFacade ==
  \E t \in Threads :
    \/ \E i \in Inst : MonoConstruct(t, i)
    \/ \E i \in Inst : MonoMakeCurrent(t, i)
    \/ \E i \in Inst : MonoDestroy(t, i)
    \/ \E i \in Inst : WholeMultiConstruct(t, i)
    \/ \E i \in Inst : WholeMultiMakeCurrent(t, i)
    \/ \E i \in Inst : WholeMultiDestroy(t, i)
    \/ \E i \in Inst : WholeGet(t, i)
    \/ \E i \in Inst, op \in GpuOps : Gpu(t, i, op)
    \/ GetQuery(t)
    \/ Return(t)

SpecFacade == Init /\ [][NextFacade]_vars

\* The per-thread variant alone, under fair scheduling: a thread inside a call
\* that can take its next step again and again takes it (the scheduler runs
\* every ready thread, and a thread that finds the mutex free again and again
\* gets it).  When a caller calls is left to the caller.
NextMulti ==
  \E t \in Threads :
    \/ \E i \in Inst : MultiConstruct(t, i)
    \/ \E i \in Inst : MultiMakeCurrent(t, i)
    \/ \E i \in Inst : MultiDestroy(t, i)
    \/ \E i \in Inst : IsCurrentCall(t, i)
    \/ McLock(t) \/ McSlot(t) \/ McTest(t) \/ McHook(t) \/ McStore(t) \/ McUnlock(t)
    \/ CurLock(t) \/ CurFind(t) \/ CurUnlock(t)
    \/ DtLock(t) \/ DtFind(t) \/ DtUnlock(t)
    \/ Return(t)

\* The steps of thread t inside a call, up to its return.
ThreadStep(t) ==
  \/ McLock(t) \/ McSlot(t) \/ McTest(t) \/ McHook(t) \/ McStore(t) \/ McUnlock(t)
  \/ CurLock(t) \/ CurFind(t) \/ CurUnlock(t)
  \/ DtLock(t) \/ DtFind(t) \/ DtUnlock(t)
  \/ Return(t)

SpecMultiFair ==
  Init /\ [][NextMulti]_vars /\ \A t \in Threads : SF_vars(ThreadStep(t))

\* The queries, is_current() and the typed reads, every statement of theirs a
\* step, among the calls that change currency, each of those one step.
NextQuery ==
  \E t \in Threads :
    \/ \E i \in Inst : MonoConstruct(t, i)
    \/ \E i \in Inst : MonoMakeCurrent(t, i)
    \/ \E i \in Inst : MonoDestroy(t, i)
    \/ \E i \in Inst : WholeMultiConstruct(t, i)
    \/ \E i \in Inst : WholeMultiMakeCurrent(t, i)
    \/ \E i \in Inst : WholeMultiDestroy(t, i)
    \/ \E i \in Inst : IsCurrentCall(t, i)
    \/ \E i \in Inst : Get(t, i)
    \/ CurLock(t) \/ CurFind(t) \/ CurUnlock(t)
    \/ GetQuery(t)
    \/ Return(t)

SpecQuery == Init /\ [][NextQuery]_vars

\* The typed reads of the per-thread variant among its constructors,
\* make_current() and destructors, every statement a step.
NextRead ==
  \E t \in Threads :
    \/ \E i \in Inst : MultiConstruct(t, i)
    \/ \E i \in Inst : MultiMakeCurrent(t, i)
    \/ \E i \in Inst : MultiDestroy(t, i)
    \/ \E i \in Inst : Get(t, i)
    \/ McLock(t) \/ McSlot(t) \/ McTest(t) \/ McHook(t) \/ McStore(t) \/ McUnlock(t)
    \/ CurLock(t) \/ CurFind(t) \/ CurUnlock(t)
    \/ DtLock(t) \/ DtFind(t) \/ DtUnlock(t)
    \/ GetQuery(t)
    \/ Return(t)

SpecRead == Init /\ [][NextRead]_vars

\* The clearing calls against the mocked driver, on contexts of both variants,
\* current or superseded.
NextDriver ==
  \E t \in Threads :
    \/ \E i \in Inst : MonoConstruct(t, i)
    \/ \E i \in Inst : WholeMultiConstruct(t, i)
    \/ \E i \in Inst, op \in ClearOps : GpuMocked(t, i, op)
    \/ Return(t)

SpecDriver == Init /\ [][NextDriver]_vars

\* -------------------------------------------------------------- properties
\* Thread t holds the outcome of a call of operation o.
Done(t, o) == pc[t] = "done" /\ frame[t].op = o

\* Thread t begins a call of operation o on instance i in this step.
Enters(t, o, i) ==
  pc[t] = "idle" /\ pc'[t] # "idle" /\ frame'[t].op = o /\ frame'[t].self = i

\* The live instances of dynamic type k whose current() answers true to t.
CurrentIn(t, k) == {i \in Inst : alive[i] /\ kind[i] = k /\ IsCurrent(t, i)}

\* C1: single-owner variant.  When B.make_current() returns, B is current and
\* no other single-owner instance is; if another instance A was current when
\* the call began (A.make_current() came before), the call has invoked exactly
\* one hook, on A, at a moment when the pointer still named A.
MonoSupersedeNotifiesOnce ==
  \A t \in Threads :
    (Done(t, "make_current") /\ kind[frame[t].self] = "mono") =>
      LET B == frame[t].self
          A == frame[t].seen
      IN /\ frame[t].err = "none"
         /\ IsCurrent(t, B)
         /\ \A j \in Inst \ {B} : kind[j] = "mono" => ~IsCurrent(t, j)
         /\ (A # NULL /\ A # B) => frame[t].hooks = <<HookCall(A, A, NoThread)>>

MonoSupersedeHappens ==
  \E t \in Threads :
    /\ Done(t, "make_current")
    /\ kind[frame[t].self] = "mono"
    /\ frame[t].seen \notin {NULL, frame[t].self}
    /\ alive[frame[t].seen]
    /\ Len(frame[t].hooks) = 1

\* C2: at every moment at most one single-owner instance is current in the
\* process, and for every thread at most one per-thread instance is current
\* as seen from that thread.
AtMostOneCurrent ==
  \A t \in Threads :
    /\ Cardinality(CurrentIn(t, "mono")) <= 1
    /\ Cardinality(CurrentIn(t, "multi")) <= 1

TwoLiveOneCurrent ==
  \E i, j \in Inst :
    /\ i # j /\ alive[i] /\ alive[j]
    /\ kind[i] = kind[j]
    /\ thread_id[i] = thread_id[j]
    /\ \E t \in Threads : IsCurrent(t, i) /\ ~IsCurrent(t, j)

\* C3: per-thread variant.  make_current() called on an instance by its
\* creating thread returns without error with the instance current on that
\* thread, however the steps of another thread's make_current() fall between
\* its own; and no step of a thread inside make_current() changes what
\* current() answers for an instance of another thread.
OwnMakeCurrentSucceeds ==
  \A t \in Threads :
    (/\ Done(t, "make_current")
     /\ kind[frame[t].self] = "multi"
     /\ thread_id[frame[t].self] = t) =>
      frame[t].err = "none" /\ IsCurrent(t, frame[t].self)

MakeCurrentKeepsOthers ==
  \A u \in Threads :
    (frame[u].op = "make_current" /\ pc'[u] # pc[u]) =>
      \A t \in Threads \ {u} : \A i \in Inst :
        (kind[i] = "multi" /\ thread_id[i] = t) =>
          (IsCurrent(t, i))' = IsCurrent(t, i)

ThreadsAreIndependent == [](OwnMakeCurrentSucceeds) /\ [][MakeCurrentKeepsOthers]_vars

MakeCurrentInterleaved ==
  \E t, u \in Threads :
    /\ t # u
    /\ Done(t, "make_current")
    /\ thread_id[frame[t].self] = t
    /\ IsCurrent(t, frame[t].self)
    /\ frame[u].op = "make_current"
    /\ thread_id[frame[u].self] = u
    /\ pc[u] = "mc_lock"

\* C4: per-thread variant.  make_current() called by a thread other than the
\* instance's creating thread fails with CrossThreadAccessError, whatever the
\* state; the call leaves the map and the mutex as they were, does not hold
\* the mutex when it returns, and invokes no hook.
CrossThreadMakeCurrentStep ==
  \A t \in Threads : \A i \in Inst :
    (Enters(t, "make_current", i) /\ kind[i] = "multi" /\ thread_id[i] # t) =>
      /\ pc'[t] = "done"
      /\ frame'[t].err = "CrossThreadAccessError"
      /\ frame'[t].hooks = <<>>
      /\ multi_current' = multi_current
      /\ lock' = lock
      /\ lock'.owner # t

CrossThreadMakeCurrentFails == [][CrossThreadMakeCurrentStep]_vars

CrossThreadMakeCurrentHappens ==
  \E t \in Threads :
    /\ Done(t, "make_current")
    /\ kind[frame[t].self] = "multi"
    /\ thread_id[frame[t].self] # t
    /\ frame[t].err = "CrossThreadAccessError"
    /\ SlotOf(t) # NULL

\* C5: per-thread variant.  is_current() called by a thread other than the
\* instance's creating thread answers false, also while the instance is
\* current on its creating thread; the call takes no lock and leaves the map
\* as it was, so every repetition answers false again.
CrossThreadIsCurrentStep ==
  \A t \in Threads : \A i \in Inst :
    (Enters(t, "is_current", i) /\ kind[i] = "multi" /\ thread_id[i] # t) =>
      /\ pc'[t] = "done"
      /\ frame'[t].ret = FALSE
      /\ frame'[t].err = "none"
      /\ multi_current' = multi_current
      /\ lock' = lock
      /\ lock'.owner # t

CrossThreadIsCurrentFalse == [][CrossThreadIsCurrentStep]_vars

CrossThreadIsCurrentHappens ==
  \E t \in Threads :
    /\ Done(t, "is_current")
    /\ kind[frame[t].self] = "multi"
    /\ thread_id[frame[t].self] # t
    /\ MultiFindIsThis(frame[t].self)
    /\ frame[t].ret = FALSE

\* C6: the destructor of the instance that is current in its scope leaves the
\* scope's slot empty, so that current() is false for every other instance of
\* the scope; and a slot comes to name an instance only by the store of a
\* make_current() on that instance (the constructor's included): no instance
\* superseded earlier becomes current again by itself.
DestroyEmptiesSlot ==
  \A t \in Threads :
    /\ (pc[t] = "dt_find" /\ pc'[t] # pc[t] /\ MultiFindIsThis(frame[t].self)) =>
         LET k == thread_id[frame[t].self] IN
         /\ k \notin DOMAIN multi_current'
         /\ \A j \in Inst : (kind[j] = "multi" /\ thread_id[j] = k) => ~(IsCurrent(k, j))'
    /\ \A i \in Inst :
         (Enters(t, "destroy", i) /\ kind[i] = "mono" /\ MonoIsCurrent(i)) =>
           /\ mono_current' = NULL
           /\ \A j \in Inst : kind'[j] = "mono" => ~(IsCurrent(t, j))'

SlotFilledOnlyByMakeCurrent ==
  /\ (mono_current' # mono_current /\ mono_current' # NULL) =>
       \E t \in Threads :
         /\ pc[t] = "idle"
         /\ frame'[t].op \in {"make_current", "construct"}
         /\ frame'[t].self = mono_current'
         /\ frame'[t].err = "none"
  /\ \A u \in Threads :
       (SlotOf(u)' # SlotOf(u) /\ SlotOf(u)' # NULL) =>
         \E t \in Threads :
           /\ pc[t] = "mc_store"
           /\ pc'[t] # pc[t]
           /\ frame[t].op \in {"make_current", "construct"}
           /\ frame[t].self = SlotOf(u)'
           /\ thread_id[frame[t].self] = u

DestroyedCurrentLeavesNone == [][DestroyEmptiesSlot /\ SlotFilledOnlyByMakeCurrent]_vars

CurrentDestroyedBesideAnother ==
  \E t \in Threads : \E j \in Inst :
    /\ Done(t, "destroy")
    /\ frame[t].seen = frame[t].self
    /\ alive[j]
    /\ kind[j] = "multi"
    /\ frame[t].arg = <<thread_id[j]>>
    /\ SlotOf(thread_id[j]) = NULL
    /\ ~IsCurrent(thread_id[j], j)

\* C7: a typed read (get<T>, major_version, minor_version) through a Context
\* whose current() is false on the calling thread fails with
\* InactiveContextError and has made no driver query; otherwise it has made
\* exactly one driver query, of its instantiation's native function for its
\* parameter, and returns the value the driver reported.
GetChecksThenQueriesOnce ==
  \A t \in Threads :
    Done(t, "get") =>
      LET f == frame[t] IN
      IF ~IsCurrent(t, f.self)
        THEN f.err = "InactiveContextError" /\ f.calls = <<>> /\ f.val = <<>>
        ELSE /\ f.err = "none"
             /\ f.tmpl \in GetOps
             /\ Len(f.arg) = 1
             /\ f.arg[1] \in GetParams(f.tmpl)
             /\ f.calls = <<[fn |-> GetFn(f.tmpl), args |-> f.arg]>>
             /\ f.out \in DriverAnswers(f.tmpl)
             /\ f.val = f.out

GetRefusedOnOwnThread ==
  \E t \in Threads :
    /\ Done(t, "get")
    /\ kind[frame[t].self] = "multi"
    /\ thread_id[frame[t].self] = t
    /\ SlotOf(t) \notin {NULL, frame[t].self}
    /\ frame[t].err = "InactiveContextError"
    /\ frame[t].calls = <<>>

\* C8: a GPU call (clear, clear(mask), clear_color, enable, disable,
\* is_enabled) through a Context whose current() is false on the calling thread
\* fails with InactiveContextError and reaches no driver function.
GpuRefusedWhenNotCurrent ==
  \A t \in Threads :
    (pc[t] = "done" /\ frame[t].op \in GpuOps /\ ~IsCurrent(t, frame[t].self)) =>
      frame[t].err = "InactiveContextError" /\ frame[t].calls = <<>>

\* C9: when a constructor returns, the new instance is current in its scope
\* (for the per-thread variant, on the constructing thread) and no other
\* instance of the scope is, the one that was current before included.
ConstructedIsCurrent ==
  \A t \in Threads :
    Done(t, "construct") =>
      LET n == frame[t].self IN
      /\ frame[t].err = "none"
      /\ IsCurrent(t, n)
      /\ \A j \in Inst \ {n} : kind[j] = kind[n] => ~IsCurrent(t, j)

ConstructedOverPrevious ==
  \E t \in Threads :
    /\ Done(t, "construct")
    /\ frame[t].seen \notin {NULL, frame[t].self}
    /\ alive[frame[t].seen]
    /\ kind[frame[t].seen] = kind[frame[t].self]

\* C10: per-thread variant.  A thread that stands at a statement of
\* make_current(), current() or the destructor that reads or writes the map
\* owns the mutex, so no two threads stand at such statements together; and
\* the map changes only in a step of the thread that owns the mutex.
InGuardedBlock(t) ==
  pc[t] \in {"mc_slot", "mc_test", "mc_hook", "mc_store", "mc_unlock",
             "cur_find", "cur_unlock", "dt_find", "dt_unlock"}

MapAccessHoldsLock ==
  /\ \A t \in Threads : InGuardedBlock(t) => lock.owner = t /\ lock.count >= 1
  /\ \A t, u \in Threads : (InGuardedBlock(t) /\ InGuardedBlock(u)) => t = u

MapChangesUnderLock ==
  multi_current' # multi_current =>
    \E t \in Threads : lock.owner = t /\ InGuardedBlock(t) /\ pc'[t] # pc[t]

MapIsGuarded == [](MapAccessHoldsLock) /\ [][MapChangesUnderLock]_vars

ThreadWaitsForBlock ==
  \E t, u \in Threads :
    /\ t # u
    /\ pc[t] \in {"mc_test", "mc_hook", "mc_store", "cur_find", "dt_find"}
    /\ pc[u] \in {"mc_lock", "cur_lock", "dt_lock"}

\* C11: per-thread variant, under fair scheduling.  Every call of
\* make_current(), is_current() and the destructor returns, normally or with
\* CrossThreadAccessError; the mutex is free whenever no call is in progress;
\* and the thread that owns the mutex can take it again, so a current() called
\* from within the hook (which runs under the mutex, at 241) would not block.
\* In these sources the hook's body is empty (172-173): no call nests in it.
LockFreeWhenIdle == (\A t \in Threads : pc[t] = "idle") => lock = FreeLock

OwnerCanLockAgain == \A t \in Threads : lock.owner = t => CanLock(t)

OutcomeIsReturnOrCrossThread ==
  \A t \in Threads :
    pc[t] = "done" => frame[t].err \in {"none", "CrossThreadAccessError"}

EveryCallReturns == \A t \in Threads : (pc[t] # "idle") ~> (pc[t] = "idle")

CrossThreadQueryIsReported ==
  \A t \in Threads :
    (/\ Done(t, "is_current")
     /\ kind[frame[t].self] = "multi"
     /\ thread_id[frame[t].self] # t) =>
      frame[t].err = "CrossThreadAccessError"

\* C12, amended: per-thread variant.  Only make_current() reports a call from
\* a thread other than the creating thread as a failure (CrossThreadAccessError);
\* is_current() from such a thread returns normally, with the answer false.
OnlyMakeCurrentReportsCrossThread ==
  \A t \in Threads :
    (/\ pc[t] = "done"
     /\ kind[frame[t].self] = "multi"
     /\ thread_id[frame[t].self] # t) =>
      /\ frame[t].op = "is_current" => (frame[t].err = "none" /\ frame[t].ret = FALSE)
      /\ frame[t].op = "make_current" => frame[t].err = "CrossThreadAccessError"

CrossThreadQueryReturnsNormally ==
  \E t \in Threads :
    /\ Done(t, "is_current")
    /\ kind[frame[t].self] = "multi"
    /\ thread_id[frame[t].self] # t
    /\ frame[t].err = "none"
    /\ frame[t].ret = FALSE

\* C13: the pointer of the single-owner variant and the map of the per-thread
\* variant start empty and are empty in every state in which no instance is
\* alive, in whatever order and from whatever threads the instances were
\* destroyed; and they change only in a step of a constructor, a
\* make_current() or a destructor.
NoneAlive == \A i \in Inst : ~alive[i]

RegistriesEmptyWhenNoneAlive ==
  NoneAlive => (mono_current = NULL /\ DOMAIN multi_current = {})

RegistriesChangeInLifecycle ==
  (mono_current' # mono_current \/ multi_current' # multi_current) =>
    \E t \in Threads :
      /\ pc'[t] # pc[t]
      /\ frame'[t].op \in {"construct", "make_current", "destroy"}

RegistriesHaveLifecycle ==
  [](RegistriesEmptyWhenNoneAlive) /\ [][RegistriesChangeInLifecycle]_vars

LastDestroyedByAnotherThread ==
  \E t \in Threads :
    /\ Done(t, "destroy")
    /\ NoneAlive
    /\ frame[t].seen = frame[t].self
    /\ Len(frame[t].arg) = 1
    /\ frame[t].arg[1] # t

\* C14: against a mocked driver, clear_color(c) hands the driver one
\* set-clear-colour call with the components of c in the order r, g, b, a, and
\* clear() one clear call with the context's stored clear mask; the driver's
\* record only grows at its end, so a clear_color(c) followed by clear() is
\* received as that colour call and then that clear call.
ClearForwardStep ==
  \A t \in Threads : \A i \in Inst :
    /\ Enters(t, "clear_color", i) =>
         LET c == frame'[t].arg IN
         /\ Len(c) = 4
         /\ driver' = Append(driver, [fn |-> "glClearColor", args |-> <<c[1], c[2], c[3], c[4]>>])
    /\ Enters(t, "clear", i) =>
         driver' = Append(driver, [fn |-> "glClear", args |-> <<clear_mask[i]>>])

DriverRecordGrows ==
  /\ Len(driver') >= Len(driver)
  /\ SubSeq(driver', 1, Len(driver)) = driver

ClearColorThenClearForwarded == [][ClearForwardStep /\ DriverRecordGrows]_vars

ColorThenClearReceived ==
  \E t \in Threads :
    /\ Done(t, "clear")
    /\ Len(driver) >= 2
    /\ driver[Len(driver) - 1] = [fn |-> "glClearColor", args |-> <<0, 0, 0, 1>>]
    /\ driver[Len(driver)] = [fn |-> "glClear", args |-> <<GL_COLOR_BUFFER_BIT>>]

\* C15: per-thread variant, A and B created by thread T.  B.make_current() on
\* T, finding A in T's slot, invokes the hook once, on A, while T owns the
\* mutex and the slot still holds A; then the slot is set to B; and when the
\* call returns B is current on T and A is not.
MultiSupersedeNotifiesUnderLock ==
  \A t \in Threads :
    LET B == frame[t].self
        A == frame[t].seen
    IN (frame[t].op = "make_current" /\ kind[B] = "multi" /\ A \notin {NULL, B}) =>
         /\ thread_id[A] = t /\ thread_id[B] = t
         /\ pc[t] = "mc_hook" =>
              (frame[t].hooks = <<>> /\ SlotOf(t) = A /\ lock.owner = t)
         /\ pc[t] = "mc_store" =>
              (frame[t].hooks = <<HookCall(A, A, t)>> /\ SlotOf(t) = A /\ lock.owner = t)
         /\ pc[t] = "mc_unlock" =>
              (frame[t].hooks = <<HookCall(A, A, t)>> /\ SlotOf(t) = B /\ lock.owner = t)
         /\ pc[t] = "done" =>
              /\ frame[t].hooks = <<HookCall(A, A, t)>>
              /\ IsCurrent(t, B)
              /\ ~IsCurrent(t, A)

MultiSupersedeHappens ==
  \E t \in Threads :
    /\ Done(t, "make_current")
    /\ kind[frame[t].self] = "multi"
    /\ frame[t].seen \notin {NULL, frame[t].self}
    /\ alive[frame[t].seen]
    /\ Len(frame[t].hooks) = 1

\* C16: both variants.  A call invokes the hook at most once, and exactly
\* when it is a make_current() (the constructor's included) that succeeds
\* while the slot holds another instance X, and then on X.  make_current() on
\* the instance the slot already holds invokes no hook and leaves the slot
\* holding it; make_current() into an empty slot invokes no hook; a
\* make_current() that fails, is_current() and the destructor invoke none.
HookExactlyOnSupersede ==
  \A t \in Threads :
    LET f == frame[t] IN
    /\ Len(f.hooks) <= 1
    /\ f.op \notin {"make_current", "construct"} => f.hooks = <<>>
    /\ f.err # "none" => f.hooks = <<>>
    /\ \A n \in 1..Len(f.hooks) :
         f.hooks[n].on = f.seen /\ f.hooks[n].slot = f.seen /\ f.seen \notin {NULL, f.self}
    /\ (pc[t] = "done" /\ f.op \in {"make_current", "construct"} /\ f.err = "none") =>
         /\ f.seen \notin {NULL, f.self} => Len(f.hooks) = 1
         /\ f.seen = f.self => ScopeSlot(f.self) = f.self

MakeCurrentOnCurrentIsNoOp ==
  \E t \in Threads :
    /\ Done(t, "make_current")
    /\ frame[t].err = "none"
    /\ frame[t].seen = frame[t].self
    /\ frame[t].hooks = <<>>
    /\ \E j \in Inst \ {frame[t].self} : alive[j] /\ kind[j] = kind[frame[t].self]

\* C17: a call on instance X changes at most the slot X competes for.  In the
\* per-thread variant no step of a constructor, a make_current() or a
\* destructor of X (the destructor run by any thread) changes the entry of a
\* thread other than X's creating thread, or the single-owner pointer; a call
\* on a single-owner instance leaves the map alone; and in both variants the
\* destructor of an instance that its slot does not hold leaves the slot as it
\* was, so that what current() answers for every other instance is unchanged.
OwnSlotOnlyStep ==
  \A t \in Threads :
    LET X == frame[t].self IN
    /\ (/\ pc[t] # "idle" /\ pc'[t] # pc[t]
        /\ frame[t].op \in {"construct", "make_current", "destroy"}
        /\ kind[X] = "multi") =>
         /\ mono_current' = mono_current
         /\ \A u \in Threads \ {thread_id[X]} :
              /\ (u \in DOMAIN multi_current') = (u \in DOMAIN multi_current)
              /\ SlotOf(u)' = SlotOf(u)
    /\ (/\ pc[t] \in {"dt_lock", "dt_find", "dt_unlock"} /\ pc'[t] # pc[t]
        /\ ~MultiFindIsThis(X)) =>
         /\ multi_current' = multi_current
         /\ \A u \in Threads : \A j \in Inst \ {X} : (IsCurrent(u, j))' = IsCurrent(u, j)
    /\ \A i \in Inst :
         /\ (pc[t] = "idle" /\ pc'[t] # "idle" /\ frame'[t].self = i /\ kind'[i] = "mono") =>
              multi_current' = multi_current
         /\ (Enters(t, "destroy", i) /\ kind[i] = "mono") =>
              /\ multi_current' = multi_current
              /\ ~MonoIsCurrent(i) =>
                   /\ mono_current' = mono_current
                   /\ \A j \in Inst \ {i} : (IsCurrent(t, j))' = IsCurrent(t, j)

CallsChangeOwnSlotOnly == [][OwnSlotOnlyStep]_vars

SupersededDestroyedByAnotherThread ==
  \E t \in Threads :
    /\ Done(t, "destroy")
    /\ Len(frame[t].arg) = 1
    /\ frame[t].arg[1] # t
    /\ frame[t].seen \notin {NULL, frame[t].self}
    /\ SlotOf(frame[t].arg[1]) = frame[t].seen
    /\ IsCurrent(frame[t].arg[1], frame[t].seen)

\* C18: the registries hold no dangling and no foreign reference.  The
\* single-owner pointer is null or names a live single-owner instance; every
\* entry of the map names a live per-thread instance created by the thread
\* that is the entry's key, or is null, and it is null only while that thread
\* stands between the operator[] and the store of its own make_current(),
\* under the mutex: between calls every entry is non-null.
RegistriesNameLiveInstances ==
  /\ mono_current # NULL => (alive[mono_current] /\ kind[mono_current] = "mono")
  /\ DOMAIN multi_current \subseteq Threads
  /\ \A k \in DOMAIN multi_current :
       LET i == multi_current[k] IN
       /\ i # NULL => (alive[i] /\ kind[i] = "multi" /\ thread_id[i] = k)
       /\ i = NULL => (lock.owner = k /\ pc[k] \in {"mc_test", "mc_store"})

EntrySurvivesOlderInstance ==
  \E i, j \in Inst :
    /\ i < j /\ ~alive[i] /\ alive[j]
    /\ kind[j] = "multi"
    /\ SlotOf(thread_id[j]) = j
    /\ \A t \in Threads : pc[t] = "idle"

\* C19: queries never change currency.  No step of an is_current(), from
\* whatever thread, and no step of a typed read, failing or succeeding, changes
\* the single-owner pointer or the map (the lookup of the owning thread creates
\* no entry where there is none), or what current() answers for any instance
\* on any thread.
QueryStep ==
  \A t \in Threads :
    (/\ pc'[t] # pc[t]
     /\ (frame[t].op \in {"is_current", "get"} \/ frame'[t].op \in {"is_current", "get"})) =>
      /\ mono_current' = mono_current
      /\ multi_current' = multi_current
      /\ \A u \in Threads : \A j \in Inst : (IsCurrent(u, j))' = IsCurrent(u, j)

QueriesKeepCurrency == [][QueryStep]_vars

ReadFailsWithSlotAbsent ==
  \E t \in Threads :
    /\ Done(t, "get")
    /\ kind[frame[t].self] = "multi"
    /\ thread_id[frame[t].self] = t
    /\ t \notin DOMAIN multi_current
    /\ frame[t].err = "InactiveContextError"

\* C20: per-thread variant.  While a typed read stands between the
\* current() that answered true and its driver query, and when it has made the
\* query, the entry of the context's creating thread, which is the reading
\* thread, still holds the context, whatever steps other threads take in calls
\* on other instances; the context itself is not destroyed during the read.
ReadStaysCurrent ==
  \A t \in Threads :
    LET f == frame[t] IN
    (/\ f.op = "get"
     /\ kind[f.self] = "multi"
     /\ (pc[t] = "get_query" \/ (pc[t] = "done" /\ f.calls # <<>>))) =>
      /\ thread_id[f.self] = t
      /\ t \in DOMAIN multi_current
      /\ multi_current[t] = f.self

OthersMoveBeforeQuery ==
  \E t, u \in Threads :
    /\ t # u
    /\ pc[t] = "get_query"
    /\ kind[frame[t].self] = "multi"
    /\ frame[u].op \in {"make_current", "destroy"}
    /\ frame[u].self # frame[t].self
    /\ pc[u] \in {"mc_store", "mc_unlock", "dt_find", "dt_unlock"}

====
